---- MODULE Spec2Model ----
(***************************************************************************)
(* The status command of src/juju/status.go: StatusCommand.Run fetches the *)
(* provider instances, the machines and the services, resolves every       *)
(* machine and every service into an entry of a nested map and writes the  *)
(* map once.  The orchestration store, the provider and the presence       *)
(* (heartbeat) subsystem are the environment: what each of them holds is   *)
(* drawn when Run fetches it and does not change during the run.           *)
(***************************************************************************)
EXTENDS Integers, Sequences, FiniteSets, TLC

\* Bounds of the model.
MaxMachines == 2
MaxServices == 2
MaxUnits == 1
MaxId == 12

(***************************************************************************)
(* Values.                                                                 *)
(***************************************************************************)

\* A Go map with no key.
EmptyMap == [x \in {} |-> x]

\* Go error values: the nil error, a *state.NotFoundError, any other error.
Nil == [type |-> "nil", msg |-> <<>>]
NotFoundError(what) == [type |-> "NotFoundError", msg |-> what]
OtherError(what) == [type |-> "error", msg |-> what]

Digit(d) ==
    CASE d = 0 -> "0" [] d = 1 -> "1" [] d = 2 -> "2" [] d = 3 -> "3"
      [] d = 4 -> "4" [] d = 5 -> "5" [] d = 6 -> "6" [] d = 7 -> "7"
      [] d = 8 -> "8" [] d = 9 -> "9"

RECURSIVE Digits(_)
Digits(n) == IF n < 10 THEN <<Digit(n)>> ELSE Append(Digits(n \div 10), Digit(n % 10))

\* A mutated conversion that keeps only the last decimal digit.
ItoaLastDigit(n) == IF n < 0 THEN <<"-", Digit((-n) % 10)>> ELSE <<Digit(n % 10)>>

\* strconv.Itoa: the decimal form of an int, as its sequence of characters.
Itoa(n) == IF n < 0 THEN <<"-">> \o Digits(-n) ELSE Digits(n)

\* A mutated message that leaves the machine out.
InstanceNotFoundNoMachine(instid, id) == OtherError(<<"instance ", instid, " not found">>)

\* fmt.Errorf("instance %s for machine %d not found", instid, id)
InstanceNotFound(instid, id) ==
    OtherError(<<"instance ", instid, " for machine ">> \o Itoa(id) \o <<" not found">>)

\* All orders in which a range loop over a Go map may visit the keys S.
Perms(S) == {p \in [1..Cardinality(S) -> S] : \A i, j \in DOMAIN p : i # j => p[i] # p[j]}

(***************************************************************************)
(* The environment: what the store, the provider and the presence          *)
(* subsystem hold.                                                         *)
(***************************************************************************)

\* The dummy provider names its instances dummyenv-N, with DNS name dummyenv-N.dns.
InstanceIds == <<"dummyenv-0", "dummyenv-1", "dummyenv-2", "dummyenv-3">>
DNSNames == <<"dummyenv-0.dns", "dummyenv-1.dns", "dummyenv-2.dns", "dummyenv-3.dns">>
ServiceNames == <<"dummy-service", "exposed-service", "other-service", "fourth-service">>
UnitNames == <<
    <<"dummy-service/0", "dummy-service/1", "dummy-service/2">>,
    <<"exposed-service/0", "exposed-service/1", "exposed-service/2">>,
    <<"other-service/0", "other-service/1", "other-service/2">>,
    <<"fourth-service/0", "fourth-service/1", "fourth-service/2">> >>

\* What a machine agent has recorded in the store: its reported status with
\* the info text (status "" is no status reported) and its tools version (""
\* is no tools recorded).
AgentDocs == {
    [status |-> "", info |-> "", tools |-> ""],
    [status |-> "started", info |-> "", tools |-> "1.2.3"],
    [status |-> "stopped", info |-> "Really?", tools |-> ""] }

\* What Machine.InstanceId returns for machine id: no instance assigned yet,
\* a failed read, or the instance id.
InstanceIdNotFound(id) ==
    [val |-> "", err |-> NotFoundError(<<"instance id of machine ">> \o Itoa(id))]
InstanceIdFailed(id) ==
    [val |-> "", err |-> OtherError(<<"cannot read machine ">> \o Itoa(id))]
InstanceIdOf(id) == [val |-> InstanceIds[id + 1], err |-> Nil]

\* What AgentAlive returns for the entity called who.
Alive == [val |-> TRUE, err |-> Nil]
NotAlive == [val |-> FALSE, err |-> Nil]
AgentAliveFailed(who) ==
    [val |-> FALSE, err |-> OtherError(<<"cannot read presence of ">> \o who)]

\* The machine records the store can hold for machine id: a machine with no
\* instance yet, a machine whose record cannot be read, a provisioned machine.
\* Only a provisioned machine is asked for its presence, so only there can
\* that read fail.
MachineRecords(id) ==
    { [id |-> id, instid |-> InstanceIdNotFound(id), alive |-> a,
       status |-> d.status, info |-> d.info, tools |-> d.tools] :
        a \in {Alive, NotAlive}, d \in AgentDocs }
    \cup
    { [id |-> id, instid |-> InstanceIdFailed(id), alive |-> NotAlive,
       status |-> "", info |-> "", tools |-> ""] }
    \cup
    { [id |-> id, instid |-> InstanceIdOf(id), alive |-> a,
       status |-> d.status, info |-> d.info, tools |-> d.tools] :
        a \in {Alive, NotAlive, AgentAliveFailed(Itoa(id))}, d \in AgentDocs }

\* The instances the provider can hold in slot n (1-based): none, one whose
\* DNS name resolves, one whose DNS name does not.
InstanceRecords(n) == {
    [id |-> InstanceIds[n], dnsname |-> [val |-> DNSNames[n], err |-> Nil]],
    [id |-> InstanceIds[n], dnsname |-> [val |-> "", err |-> OtherError(<<"no dns name for ", InstanceIds[n]>>)]] }

\* What a unit's AssignedMachineId returns: a machine id, or not assigned.
NotAssigned == [val |-> 0, err |-> OtherError(<<"unit is not assigned to a machine">>)]
AssignedTo(id) == [val |-> id, err |-> Nil]

\* The unit records the store can hold under a unit name: one with neither
\* machine nor status, one alive in error on machine 0.
UnitRecords(name) == {
    [name |-> name, machine |-> NotAssigned, alive |-> NotAlive,
     status |-> "", info |-> ""],
    [name |-> name, machine |-> AssignedTo(0), alive |-> Alive,
     status |-> "error", info |-> "You Require More Vespene Gas"] }

\* The charm of the tests: its URL, and its metadata with the charm's name.
DummyCharm == [url |-> "local:series/dummy-1", meta |-> [name |-> "dummy"]]
NoCharm == [url |-> "", meta |-> [name |-> ""]]

\* What Service.Charm returns for the service called name.
CharmResults(name) == {
    [val |-> DummyCharm, err |-> Nil],
    [val |-> NoCharm, err |-> OtherError(<<"cannot read charm of ", name>>)] }

\* What Service.IsExposed returns for the service called name.
IsExposedResults(name) == {
    [val |-> TRUE, err |-> Nil],
    [val |-> FALSE, err |-> Nil],
    [val |-> FALSE, err |-> OtherError(<<"cannot read exposed flag of ", name>>)] }

\* The unit lists a service in slot n (1-based) can have: units n/0 .. n/(k-1),
\* for k up to max.
RECURSIVE UnitLists(_, _)
UnitLists(n, max) ==
    IF max = 0 THEN {<<>>}
    ELSE LET shorter == UnitLists(n, max - 1)
         IN shorter \cup {Append(l, u) : l \in {x \in shorter : Len(x) = max - 1},
                                          u \in UnitRecords(UnitNames[n][max])}

\* The service records the store can hold in slot n (1-based). The exposed
\* flag is read only after the charm was read, so only then can that read
\* differ.
ServiceRecords(n) ==
    { [name |-> ServiceNames[n], charm |-> c, exposed |-> e, units |-> u] :
        c \in {x \in CharmResults(ServiceNames[n]) : x.err = Nil},
        e \in IsExposedResults(ServiceNames[n]),
        u \in UnitLists(n, MaxUnits) }
    \cup
    { [name |-> ServiceNames[n], charm |-> c, exposed |-> [val |-> FALSE, err |-> Nil],
       units |-> u] :
        c \in {x \in CharmResults(ServiceNames[n]) : x.err # Nil},
        u \in UnitLists(n, MaxUnits) }

\* The lists State.AllMachines can return: machines 0 .. n-1, for n up to max.
RECURSIVE MachineLists(_)
MachineLists(max) ==
    IF max = 0 THEN {<<>>}
    ELSE LET shorter == MachineLists(max - 1)
         IN shorter \cup {Append(l, m) : l \in {x \in shorter : Len(x) = max - 1},
                                          m \in MachineRecords(max - 1)}
AllMachinesLists == MachineLists(MaxMachines)

\* The lists Environ.AllInstances can return: any of the instances of slots
\* 1 .. MaxMachines, at most one per slot, in slot order.
RECURSIVE InstanceLists(_)
InstanceLists(n) ==
    IF n = 0 THEN {<<>>}
    ELSE LET shorter == InstanceLists(n - 1)
         IN shorter \cup {Append(l, i) : l \in shorter, i \in InstanceRecords(n)}
AllInstancesLists == InstanceLists(MaxMachines)

\* The lists State.AllServices can return: the services of slots 1 .. n, for
\* n up to max.
RECURSIVE ServiceLists(_)
ServiceLists(max) ==
    IF max = 0 THEN {<<>>}
    ELSE LET shorter == ServiceLists(max - 1)
         IN shorter \cup {Append(l, sv) : l \in {x \in shorter : Len(x) = max - 1},
                                           sv \in ServiceRecords(max)}
AllServicesLists == ServiceLists(MaxServices)

(***************************************************************************)
(* The functions of status.go.  A function that returns (value, error)     *)
(* is an operator whose value is the record [r, err].                      *)
(***************************************************************************)

\* The index of the last element of the list keys that is k: a later element
\* of a list overwrites an earlier one under the same map key.
LastWith(keys, k) ==
    CHOOSE i \in DOMAIN keys : keys[i] = k /\ \A j \in DOMAIN keys : keys[j] = k => j <= i

\* fetchAllInstances: the instances indexed by instance id.
fetchAllInstances(insts) ==
    LET ids == [i \in DOMAIN insts |-> insts[i].id]
    IN [k \in {ids[i] : i \in DOMAIN ids} |-> insts[LastWith(ids, k)]]

\* fetchAllMachines: the machines indexed by machine id.
fetchAllMachines(ms) ==
    LET ids == [i \in DOMAIN ms |-> ms[i].id]
    IN [k \in {ids[i] : i \in DOMAIN ids} |-> ms[LastWith(ids, k)]]

\* fetchAllServices: the services indexed by service name.
fetchAllServices(svcs) ==
    LET names == [i \in DOMAIN svcs |-> svcs[i].name]
    IN [k \in {names[i] : i \in DOMAIN names} |-> svcs[LastWith(names, k)]]

\* processMachine: the entry of a machine whose instance the provider knows.
processMachine(machine, instance) ==
    IF instance.dnsname.err # Nil THEN [r |-> EmptyMap, err |-> instance.dnsname.err]
    ELSE IF machine.alive.err # Nil THEN [r |-> EmptyMap, err |-> machine.alive.err]
    ELSE [r |-> (IF machine.alive.val THEN "agent-state" :> "running" ELSE EmptyMap)
                @@ ("instance-id" :> instance.id)
                @@ ("dns-name" :> instance.dnsname.val),
          err |-> Nil]

\* A mutated loop body that skips a machine it cannot resolve.
processMachinesStepSkip(m, instances, r) ==
    IF m.instid.err.type = "NotFoundError"
    THEN [r |-> (m.id :> ("instance-id" :> "pending")) @@ r, err |-> Nil]
    ELSE IF m.instid.val \notin DOMAIN instances THEN [r |-> r, err |-> Nil]
    ELSE LET machine == processMachine(m, instances[m.instid.val])
         IN IF machine.err # Nil THEN [r |-> r, err |-> Nil]
            ELSE [r |-> (m.id :> machine.r) @@ r, err |-> Nil]

\* A mutated loop body that reports the agent of a machine with no instance.
processMachinesStepPendingAgent(m, instances, r) ==
    IF m.instid.err.type = "NotFoundError"
    THEN [r |-> (m.id :> ((IF m.alive.val THEN "agent-state" :> "running" ELSE EmptyMap)
                          @@ ("instance-id" :> "pending"))) @@ r,
          err |-> Nil]
    ELSE IF m.instid.val \notin DOMAIN instances
    THEN [r |-> EmptyMap, err |-> InstanceNotFound(m.instid.val, m.id)]
    ELSE LET machine == processMachine(m, instances[m.instid.val])
         IN IF machine.err # Nil THEN [r |-> EmptyMap, err |-> machine.err]
            ELSE [r |-> (m.id :> machine.r) @@ r, err |-> Nil]

\* The body of the loop of processMachines for machine m, with r the map built
\* so far: the map with m's entry, or the error that ends the loop. The err of
\* "if err, ok := err.(*state.NotFoundError); ok" shadows the error of the read
\* in the whole if/else chain and is a nil pointer when the assertion fails, so
\* "else if err != nil" never holds: a read that failed otherwise goes on to
\* the lookup with the instance id the read returned.
processMachinesStep(m, instances, r) ==
    IF m.instid.err.type = "NotFoundError"
    THEN [r |-> (m.id :> ("instance-id" :> "pending")) @@ r, err |-> Nil]
    ELSE IF m.instid.val \notin DOMAIN instances
    THEN [r |-> EmptyMap, err |-> InstanceNotFound(m.instid.val, m.id)]
    ELSE LET machine == processMachine(m, instances[m.instid.val])
         IN IF machine.err # Nil THEN [r |-> EmptyMap, err |-> machine.err]
            ELSE [r |-> (m.id :> machine.r) @@ r, err |-> Nil]

RECURSIVE processMachinesLoop(_, _, _, _)
processMachinesLoop(machines, instances, order, r) ==
    IF order = <<>> THEN [r |-> r, err |-> Nil]
    ELSE LET step == processMachinesStep(machines[Head(order)], instances, r)
         IN IF step.err # Nil THEN step
            ELSE processMachinesLoop(machines, instances, Tail(order), step.r)

\* A mutated processMachines that reports a failure without saying whose.
processMachinesAnonymous(machines, instances, order) ==
    LET res == processMachinesLoop(machines, instances, order, EmptyMap)
    IN IF res.err # Nil
       THEN [r |-> EmptyMap, err |-> OtherError(<<"cannot process the machines">>)]
       ELSE res

\* processMachines: the machines map, the range loop visiting the machines in
\* the given order.
processMachines(machines, instances, order) ==
    processMachinesLoop(machines, instances, order, EmptyMap)

\* processService: the entry of a service.
processService(service) ==
    IF service.charm.err # Nil THEN [r |-> EmptyMap, err |-> service.charm.err]
    ELSE IF service.exposed.err # Nil THEN [r |-> EmptyMap, err |-> service.exposed.err]
    ELSE [r |-> ("exposed" :> service.exposed.val) @@ ("charm" :> service.charm.val.meta.name),
          err |-> Nil]

RECURSIVE processServicesLoop(_, _, _)
processServicesLoop(services, order, r) ==
    IF order = <<>> THEN [r |-> r, err |-> Nil]
    ELSE LET s == services[Head(order)]
             entry == processService(s)
         IN IF entry.err # Nil THEN [r |-> EmptyMap, err |-> entry.err]
            ELSE processServicesLoop(services, Tail(order), (s.name :> entry.r) @@ r)

\* processServices: the services map, the range loop visiting the services in
\* the given order.
processServices(services, order) == processServicesLoop(services, order, EmptyMap)

RECURSIVE jsonifyLoop(_, _, _)
jsonifyLoop(machines, order, m) ==
    IF order = <<>> THEN m
    ELSE LET k == Head(order)
         IN jsonifyLoop(machines, Tail(order), (Itoa(k) :> machines[k]) @@ m)

\* jsonify: the result with the keys of its machines map converted to
\* strings, the range loop visiting the keys in the given order.
jsonify(r, order) ==
    [services |-> r.services, machines |-> jsonifyLoop(r.machines, order, EmptyMap)]

(***************************************************************************)
(* The state of one run of the command.                                    *)
(***************************************************************************)

VARIABLES
    format,        \* what c.out.Name() returned: "" until Run asks for it
    allInstances,  \* what Environ.AllInstances returned
    allMachines,   \* what State.AllMachines returned
    allServices,   \* what State.AllServices returned
    pc,            \* the statement of Run that runs next
    conn,          \* the connection: "none", "open" or "closed"
    instances,     \* Run's local instances
    machines,      \* Run's local machines
    services,      \* Run's local services
    result,        \* Run's local result
    out,           \* the values written to the output, in order
    ret            \* the values Run has returned, in order

vars == <<format, allInstances, allMachines, allServices, pc, conn,
          instances, machines, services, result, out, ret>>

env == <<format, allInstances, allMachines, allServices>>

Formats == {"yaml", "json"}

\* The error of a write to the output that failed.
WriteError == OtherError(<<"cannot write the output">>)

\* What is left in the output of a write of value that stopped part-way.
PartOf(value) == [part \in {"truncated"} |-> value]

Init ==
    /\ format = ""
    /\ allInstances = <<>>
    /\ allMachines = <<>>
    /\ allServices = <<>>
    /\ pc = "NewConn"
    /\ conn = "none"
    /\ instances = EmptyMap
    /\ machines = EmptyMap
    /\ services = EmptyMap
    /\ result = EmptyMap
    /\ out = <<>>
    /\ ret = <<>>

\* Run returns err: the deferred conn.Close runs when the connection is open.
Return(err) ==
    /\ ret' = Append(ret, err)
    /\ conn' = IF conn = "open" THEN "closed" ELSE conn
    /\ pc' = "done"

\* conn, err := juju.NewConn(c.EnvName)
NewConn ==
    /\ pc = "NewConn"
    /\ \/ /\ Return(OtherError(<<"cannot connect to the environment">>))
          /\ UNCHANGED <<env, instances, machines, services, result, out>>
       \/ /\ conn' = "open"
          /\ pc' = "fetchAllInstances"
          /\ UNCHANGED <<env, instances, machines, services, result, out, ret>>

\* instances, err := fetchAllInstances(conn.Environ)
FetchAllInstances ==
    /\ pc = "fetchAllInstances"
    /\ \/ /\ Return(OtherError(<<"cannot list the instances">>))
          /\ UNCHANGED <<env, instances, machines, services, result, out>>
       \/ \E insts \in AllInstancesLists :
            /\ allInstances' = insts
            /\ instances' = fetchAllInstances(insts)
            /\ pc' = "State"
            /\ UNCHANGED <<format, allMachines, allServices, conn, machines, services,
                           result, out, ret>>

\* state, err := conn.State()
ConnState ==
    /\ pc = "State"
    /\ \/ /\ Return(OtherError(<<"cannot open the state">>))
          /\ UNCHANGED <<env, instances, machines, services, result, out>>
       \/ /\ pc' = "fetchAllMachines"
          /\ UNCHANGED <<env, conn, instances, machines, services, result, out, ret>>

\* machines, err := fetchAllMachines(state)
FetchAllMachines ==
    /\ pc = "fetchAllMachines"
    /\ \/ /\ Return(OtherError(<<"cannot list the machines">>))
          /\ UNCHANGED <<env, instances, machines, services, result, out>>
       \/ \E ms \in AllMachinesLists :
            /\ allMachines' = ms
            /\ machines' = fetchAllMachines(ms)
            /\ pc' = "fetchAllServices"
            /\ UNCHANGED <<format, allInstances, allServices, conn, instances, services,
                           result, out, ret>>

\* services, err := fetchAllServices(state)
FetchAllServices ==
    /\ pc = "fetchAllServices"
    /\ \/ /\ Return(OtherError(<<"cannot list the services">>))
          /\ UNCHANGED <<env, instances, machines, services, result, out>>
       \/ \E svcs \in AllServicesLists :
            /\ allServices' = svcs
            /\ services' = fetchAllServices(svcs)
            /\ pc' = "processMachines"
            /\ UNCHANGED <<format, allInstances, allMachines, conn, instances, machines,
                           result, out, ret>>

\* result["machines"], err = processMachines(machines, instances)
ProcessMachines ==
    /\ pc = "processMachines"
    /\ \E order \in Perms(DOMAIN machines) :
         LET res == processMachines(machines, instances, order)
         IN /\ result' = ("machines" :> res.r) @@ result
            /\ IF res.err # Nil
               THEN Return(res.err)
               ELSE /\ pc' = "processServices"
                    /\ UNCHANGED <<conn, ret>>
    /\ UNCHANGED <<env, instances, machines, services, out>>

\* result["services"], err = processServices(services)
ProcessServices ==
    /\ pc = "processServices"
    /\ \E order \in Perms(DOMAIN services) :
         LET res == processServices(services, order)
         IN /\ result' = ("services" :> res.r) @@ result
            /\ IF res.err # Nil
               THEN Return(res.err)
               ELSE /\ pc' = "Write"
                    /\ UNCHANGED <<conn, ret>>
    /\ UNCHANGED <<env, instances, machines, services, out>>

\* if c.out.Name() == "json" { return c.out.Write(ctx, jsonify(result)) }
\* return c.out.Write(ctx, result)
\* Run returns what c.out.Write returns. When the write fails, what reached
\* the output is up to the output: nothing, a part of the value, or all of it.
Write ==
    /\ pc = "Write"
    /\ \E name \in Formats :
         /\ format' = name
         /\ \E value \in IF name = "json"
                          THEN {jsonify(result, order) :
                                  order \in Perms(DOMAIN result["machines"])}
                          ELSE {result} :
              \/ /\ out' = Append(out, value)
                 /\ Return(Nil)
              \/ /\ out' \in {out, Append(out, PartOf(value)), Append(out, value)}
                 /\ Return(WriteError)
    /\ UNCHANGED <<allInstances, allMachines, allServices, instances, machines, services,
                   result>>

Next ==
    \/ NewConn
    \/ FetchAllInstances
    \/ ConnState
    \/ FetchAllMachines
    \/ FetchAllServices
    \/ ProcessMachines
    \/ ProcessServices
    \/ Write

Spec == Init /\ [][Next]_vars

(***************************************************************************)
(* jsonify on its own: any machines map with integer keys, converted once. *)
(***************************************************************************)

\* The integer keys a machines map is drawn with.
Ids == (0 - MaxId)..MaxId

\* The sets of at most max keys.
RECURSIVE KeySets(_)
KeySets(max) ==
    IF max = 0 THEN {{}}
    ELSE LET smaller == KeySets(max - 1)
         IN smaller \cup {ks \cup {k} : ks \in smaller, k \in Ids}

\* Entries as processMachines and processServices build them.
SomeMachineEntries == {
    "instance-id" :> "pending",
    ("agent-state" :> "running") @@ ("instance-id" :> InstanceIds[1])
        @@ ("dns-name" :> DNSNames[1]) }
SomeServices == {
    EmptyMap,
    ServiceNames[1] :> (("exposed" :> FALSE) @@ ("charm" :> "dummy")) }

InitJsonify ==
    /\ format = "json"
    /\ allInstances = <<>>
    /\ allMachines = <<>>
    /\ allServices = <<>>
    /\ pc = "jsonify"
    /\ conn = "none"
    /\ instances = EmptyMap
    /\ machines = EmptyMap
    /\ services = EmptyMap
    /\ \E ks \in KeySets(MaxMachines), svcs \in SomeServices :
         \E ms \in [ks -> SomeMachineEntries] :
            result = ("machines" :> ms) @@ ("services" :> svcs)
    /\ out = <<>>
    /\ ret = <<>>

\* jsonify(result), the value handed to the output.
Jsonify ==
    /\ pc = "jsonify"
    /\ \E order \in Perms(DOMAIN result["machines"]) :
         out' = Append(out, jsonify(result, order))
    /\ pc' = "done"
    /\ UNCHANGED <<env, conn, instances, machines, services, result, ret>>

NextJsonify == Jsonify

SpecJsonify == InitJsonify /\ [][NextJsonify]_vars

(***************************************************************************)
(* Vocabulary of the properties.                                           *)
(***************************************************************************)

Done == pc = "done"
Succeeded == Done /\ ret = <<Nil>>
Failed == Done /\ Len(ret) = 1 /\ ret[1] # Nil

\* The run failed in the write to the output, its last step.
WriteFailed == Done /\ ret = <<WriteError>>

\* Both resolution steps have run: every fetch succeeded before them.
MachinesStepRan == "machines" \in DOMAIN result
ServicesStepRan == "services" \in DOMAIN result

\* The entry of machine id in the snapshot written, under the key of the format.
MachineEntry(id) ==
    IF format = "json" THEN out[1]["machines"][Itoa(id)] ELSE out[1]["machines"][id]
ServiceEntry(name) == out[1]["services"][name]

\* The value of a key of an entry, "" when the entry has no such key.
Field(entry, key) == IF key \in DOMAIN entry THEN entry[key] ELSE ""

\* The conditions of the environment under which a machine or a service cannot
\* be resolved.
Provisioned(m) == m.instid.err = Nil
ReadFailed(m) == m.instid.err.type = "error"
InstanceMissing(m) == Provisioned(m) /\ m.instid.val \notin DOMAIN instances
MachineFatal(m) ==
    \/ ReadFailed(m)
    \/ InstanceMissing(m)
    \/ /\ Provisioned(m)
       /\ m.instid.val \in DOMAIN instances
       /\ (instances[m.instid.val].dnsname.err # Nil \/ m.alive.err # Nil)
ServiceFatal(sv) == sv.charm.err # Nil \/ sv.exposed.err # Nil

FatalMachines == {id \in DOMAIN machines : MachineFatal(machines[id])}
MissingMachines == {id \in DOMAIN machines : InstanceMissing(machines[id])}
FatalServices == {n \in DOMAIN services : ServiceFatal(services[n])}

\* The sequence part occurs in the sequence whole, as consecutive elements.
Occurs(part, whole) ==
    \E i \in 1..(Len(whole) - Len(part) + 1) : SubSeq(whole, i, i + Len(part) - 1) = part

\* Reading a decimal string back, as strconv.Atoi does.
DigitValue(c) ==
    CASE c = "0" -> 0 [] c = "1" -> 1 [] c = "2" -> 2 [] c = "3" -> 3 [] c = "4" -> 4
      [] c = "5" -> 5 [] c = "6" -> 6 [] c = "7" -> 7 [] c = "8" -> 8 [] c = "9" -> 9
RECURSIVE ParseDigits(_)
ParseDigits(str) ==
    IF str = <<>> THEN 0
    ELSE 10 * ParseDigits(SubSeq(str, 1, Len(str) - 1)) + DigitValue(str[Len(str)])
Atoi(str) == IF str[1] = "-" THEN 0 - ParseDigits(Tail(str)) ELSE ParseDigits(str)

\* str is the decimal form of an integer: digits, after a sign for a negative
\* number, with no leading zero.
IsDecimal(str) ==
    LET digits == IF str # <<>> /\ str[1] = "-" THEN Tail(str) ELSE str
    IN /\ digits # <<>>
       /\ \A i \in DOMAIN digits :
            digits[i] \in {"0", "1", "2", "3", "4", "5", "6", "7", "8", "9"}
       /\ digits[1] = "0" => (Len(digits) = 1 /\ str = digits)

\* err is the inconsistency error of machine m: its message names the instance
\* id and the machine id of m.
IsInconsistencyOf(err, m) ==
    /\ err.type = "error"
    /\ Occurs(<<"instance ", m.instid.val, " for machine ">> \o Digits(m.id)
                  \o <<" not found">>, err.msg)

\* err is the error that resolving machine m ends with. A machine whose
\* instance id could not be read ends with the inconsistency error, not with
\* the error of the read.
IsErrorOfMachine(err, m) ==
    IF ReadFailed(m) \/ InstanceMissing(m) THEN IsInconsistencyOf(err, m)
    ELSE IF ~Provisioned(m) THEN FALSE
    ELSE IF instances[m.instid.val].dnsname.err # Nil
    THEN err = instances[m.instid.val].dnsname.err
    ELSE m.alive.err # Nil /\ err = m.alive.err

\* err is the error that resolving service sv ends with.
IsErrorOfService(err, sv) ==
    IF sv.charm.err # Nil THEN err = sv.charm.err
    ELSE sv.exposed.err # Nil /\ err = sv.exposed.err

(***************************************************************************)
(* C1, as the spec states it.  For every machine whose recorded instance   *)
(* id is not in the provider index, the run fails and writes nothing, and  *)
(* the error of the run is the inconsistency error that names the          *)
(* instance id and the machine id of that machine.                         *)
(***************************************************************************)
C1_EveryMissingNamed ==
    (Done /\ MachinesStepRan /\ MissingMachines # {}) =>
        /\ Failed
        /\ out = <<>>
        /\ \A id \in MissingMachines : IsInconsistencyOf(ret[1], machines[id])

(***************************************************************************)
(* C1, amended.  For every machine whose recorded instance id is not in    *)
(* the provider index, the run fails and writes nothing, and the one error *)
(* of the run is the inconsistency error that names the instance id and    *)
(* the machine id of that machine, or else the error of another machine    *)
(* that cannot be resolved; it is that machine's inconsistency error when  *)
(* no other machine is unresolvable.                                       *)
(***************************************************************************)
C1_MissingInstanceFails ==
    (Done /\ MachinesStepRan /\ MissingMachines # {}) =>
        /\ Failed
        /\ out = <<>>
        /\ \A id \in MissingMachines :
             /\ \/ IsInconsistencyOf(ret[1], machines[id])
                \/ \E other \in FatalMachines \ {id} :
                     IsErrorOfMachine(ret[1], machines[other])
             /\ FatalMachines = {id} => IsInconsistencyOf(ret[1], machines[id])

C1_Witness ==
    /\ Failed
    /\ MachinesStepRan
    /\ Cardinality(DOMAIN machines) = 2
    /\ MissingMachines = {1}
    /\ FatalMachines = {1}
    /\ IsInconsistencyOf(ret[1], machines[1])

(***************************************************************************)
(* C2.  A run is all or nothing: it returns once; when a fetch or the      *)
(* resolution of a machine or a service fails it returns an error and      *)
(* writes nothing; it writes only at its end, once, after every machine    *)
(* and every service has been resolved, and what it hands to the output    *)
(* has an entry for every machine and every service.  The write itself is  *)
(* the one step after the resolution: when it fails the run returns its    *)
(* error, and the output holds nothing, the snapshot or a part of it.      *)
(***************************************************************************)
CompleteSnapshot(v) ==
    /\ DOMAIN v = {"machines", "services"}
    /\ DOMAIN v["services"] = DOMAIN services
    /\ IF format = "json"
       THEN /\ v["services"] = result["services"]
            /\ Cardinality(DOMAIN v["machines"]) = Cardinality(DOMAIN machines)
            /\ \A id \in DOMAIN machines :
                 /\ Itoa(id) \in DOMAIN v["machines"]
                 /\ v["machines"][Itoa(id)] = result["machines"][id]
       ELSE v = result

C2_AllOrNothing ==
    /\ Len(out) <= 1
    /\ Len(ret) <= 1
    /\ Done <=> Len(ret) = 1
    /\ (Failed /\ ~WriteFailed) => out = <<>>
    /\ (Done /\ MachinesStepRan /\ FatalMachines # {}) => (Failed /\ out = <<>>)
    /\ (Done /\ ServicesStepRan /\ FatalServices # {}) => (Failed /\ out = <<>>)
    /\ (out # <<>> \/ Succeeded \/ WriteFailed) =>
         /\ Done
         /\ MachinesStepRan /\ ServicesStepRan
         /\ FatalMachines = {} /\ FatalServices = {}
         /\ DOMAIN machines = {allMachines[i].id : i \in DOMAIN allMachines}
         /\ DOMAIN services = {allServices[i].name : i \in DOMAIN allServices}
         /\ DOMAIN result["machines"] = DOMAIN machines
    /\ Succeeded => (Len(out) = 1 /\ CompleteSnapshot(out[1]))
    /\ (WriteFailed /\ out # <<>>) =>
         \/ CompleteSnapshot(out[1])
         \/ DOMAIN out[1] = {"truncated"} /\ CompleteSnapshot(out[1]["truncated"])

C2_Witness ==
    /\ Failed
    /\ MachinesStepRan /\ ServicesStepRan
    /\ DOMAIN machines # {}
    /\ Cardinality(DOMAIN services) = 2
    /\ Cardinality(FatalServices) = 1
    /\ out = <<>>

(***************************************************************************)
(* C3.  A machine with no assigned instance has the entry                  *)
(* {instance-id: "pending"} and no other key, whatever its liveness,       *)
(* status and tools, and it does not make the run fail: a run whose        *)
(* machines step fails has a machine that cannot be resolved.              *)
(***************************************************************************)
PendingMachines == {id \in DOMAIN machines : machines[id].instid.err.type = "NotFoundError"}

C3_PendingEntry ==
    /\ Succeeded => \A id \in PendingMachines : MachineEntry(id) = ("instance-id" :> "pending")
    /\ (Failed /\ MachinesStepRan /\ ~ServicesStepRan) => FatalMachines # {}
    /\ (Done /\ MachinesStepRan /\ ~ServicesStepRan) => Failed

C3_Witness ==
    /\ Succeeded
    /\ PendingMachines = DOMAIN machines
    /\ \E id \in PendingMachines :
         /\ machines[id].alive.val
         /\ machines[id].status # ""
         /\ machines[id].tools # ""
         /\ MachineEntry(id) = ("instance-id" :> "pending")
    /\ \E id \in PendingMachines :
         /\ ~machines[id].alive.val
         /\ machines[id].status = "stopped"

\* The provisioned machines of a snapshot: each has been resolved by processMachine.
ProvisionedMachines == {id \in DOMAIN machines : Provisioned(machines[id])}

\* The agent-state-info of an agent that is down: the status keyword, followed
\* by the info text when there is one.
DownInfo(status, info) == IF info = "" THEN status ELSE <<status, ": ", info>>

(***************************************************************************)
(* C4.  For every provisioned machine of a snapshot, agent-state is "down" *)
(* exactly when the machine is not alive and has reported a status, and    *)
(* agent-state-info then is the status keyword, followed by ": " and the   *)
(* info text when the info text is not empty.                              *)
(***************************************************************************)
C4_DownIffDeadWithStatus ==
    Succeeded =>
        \A id \in ProvisionedMachines :
            LET m == machines[id]
                e == MachineEntry(id)
                down == ~m.alive.val /\ m.status # ""
            IN /\ Field(e, "agent-state") = "down" <=> down
               /\ down => /\ "agent-state-info" \in DOMAIN e
                          /\ e["agent-state-info"] = DownInfo(m.status, m.info)

(***************************************************************************)
(* C5.  For every provisioned machine of a snapshot, agent-state is        *)
(* "started" exactly when the machine is alive and has reported no status. *)
(***************************************************************************)
C5_StartedIffAliveNoStatus ==
    Succeeded =>
        \A id \in ProvisionedMachines :
            LET m == machines[id]
            IN Field(MachineEntry(id), "agent-state") = "started"
                   <=> (m.alive.val /\ m.status = "")

(***************************************************************************)
(* C6.  For every provisioned machine of a snapshot that is alive and has  *)
(* reported a status, agent-state is the keyword of that status, and       *)
(* agent-state-info is present exactly when the info text is not empty,    *)
(* and then is the info text.                                              *)
(***************************************************************************)
C6_AliveReportsStatus ==
    Succeeded =>
        \A id \in ProvisionedMachines :
            LET m == machines[id]
                e == MachineEntry(id)
            IN (m.alive.val /\ m.status # "") =>
                   /\ Field(e, "agent-state") = m.status
                   /\ "agent-state-info" \in DOMAIN e <=> m.info # ""
                   /\ m.info # "" => e["agent-state-info"] = m.info

(***************************************************************************)
(* C7.  For every service of a snapshot, the entry has a units key exactly *)
(* when the service has a unit; the units mapping then has one entry for   *)
(* each unit, under the unit's name, and a unit's entry has a machine      *)
(* field exactly when the unit is assigned to a machine, holding the       *)
(* machine's id in decimal.                                                *)
(***************************************************************************)
C7_UnitsOfService ==
    Succeeded =>
        \A n \in DOMAIN services :
            LET units == services[n].units
                e == ServiceEntry(n)
            IN /\ "units" \in DOMAIN e <=> units # <<>>
               /\ units # <<>> =>
                    /\ DOMAIN e["units"] = {units[i].name : i \in DOMAIN units}
                    /\ \A i \in DOMAIN units :
                         LET u == units[i]
                             ue == e["units"][u.name]
                         IN /\ "machine" \in DOMAIN ue <=> u.machine.err = Nil
                            /\ u.machine.err = Nil => ue["machine"] = Digits(u.machine.val)

(***************************************************************************)
(* C8.  For every service of a snapshot, the charm field is the URL of the *)
(* service's charm and the exposed field is the service's exposure flag.   *)
(***************************************************************************)
C8_CharmIsURL ==
    Succeeded =>
        \A n \in DOMAIN services :
            /\ ServiceEntry(n)["charm"] = services[n].charm.val.url
            /\ ServiceEntry(n)["exposed"] = services[n].exposed.val

(***************************************************************************)
(* C9.  For every provisioned machine of a snapshot, the entry has an      *)
(* agent-version key exactly when tools have been recorded for the         *)
(* machine, and its value then is the version of the tools.                *)
(***************************************************************************)
C9_AgentVersion ==
    Succeeded =>
        \A id \in ProvisionedMachines :
            LET m == machines[id]
                e == MachineEntry(id)
            IN /\ "agent-version" \in DOMAIN e <=> m.tools # ""
               /\ m.tools # "" => e["agent-version"] = m.tools

(***************************************************************************)
(* C10.  jsonify changes the representation only: the keys of the machines *)
(* map it returns are the decimal forms of the integer keys it was given,  *)
(* one for each, every one reading back as the integer whose entry it      *)
(* holds, and the services map is the one it was given.                    *)
(***************************************************************************)
C10_JsonifyKeepsContent ==
    (Done /\ format = "json" /\ out # <<>>) =>
        LET before == result["machines"]
            after == out[1]["machines"]
        IN /\ DOMAIN out[1] = {"machines", "services"}
           /\ out[1]["services"] = result["services"]
           /\ Cardinality(DOMAIN after) = Cardinality(DOMAIN before)
           /\ \A key \in DOMAIN after :
                /\ IsDecimal(key)
                /\ Atoi(key) \in DOMAIN before
                /\ after[key] = before[Atoi(key)]
           /\ \A k \in DOMAIN before : \E key \in DOMAIN after : Atoi(key) = k

C10_Witness ==
    /\ Done
    /\ out # <<>>
    /\ DOMAIN result["machines"] = {0 - 7, 10}
    /\ DOMAIN out[1]["machines"] = {<<"-", "7">>, <<"1", "0">>}
    /\ out[1]["machines"][<<"1", "0">>] = ("instance-id" :> "pending")
    /\ out[1]["machines"][<<"-", "7">>] # ("instance-id" :> "pending")
    /\ result["services"] # EmptyMap

\* The run failed while resolving the machines, or while resolving the services.
FailedAtMachines == Failed /\ MachinesStepRan /\ ~ServicesStepRan
FailedAtServices == Failed /\ ServicesStepRan /\ ~WriteFailed

\* The service names in lexicographic order, and the place of a name in it.
NamesInOrder == <<"dummy-service", "exposed-service", "fourth-service", "other-service">>
Place(name) == CHOOSE i \in DOMAIN NamesInOrder : NamesInOrder[i] = name

LowestFatalMachine == CHOOSE id \in FatalMachines : \A other \in FatalMachines : id <= other
FirstFatalService ==
    CHOOSE n \in FatalServices : \A other \in FatalServices : Place(n) <= Place(other)

(***************************************************************************)
(* C11, as the spec states it.  The one error of a run that fails while    *)
(* resolving the machines is the error of the machine with the lowest id   *)
(* among those that cannot be resolved, and the one error of a run that    *)
(* fails while resolving the services is the error of the first service in *)
(* the order of the names, in whatever order the items are visited.        *)
(***************************************************************************)
C11_ErrorOfLowest ==
    /\ FailedAtMachines => IsErrorOfMachine(ret[1], machines[LowestFatalMachine])
    /\ FailedAtServices => IsErrorOfService(ret[1], services[FirstFatalService])

(***************************************************************************)
(* C11, amended.  The one error of a run that fails while resolving the    *)
(* machines is the error of one of the machines that cannot be resolved,   *)
(* and the one error of a run that fails while resolving the services is   *)
(* the error of one of the services that cannot be resolved: the first     *)
(* that the loop over the map visits, which need not be the lowest.        *)
(***************************************************************************)
C11_ErrorOfSomeFatal ==
    /\ FailedAtMachines => \E id \in FatalMachines : IsErrorOfMachine(ret[1], machines[id])
    /\ FailedAtServices => \E n \in FatalServices : IsErrorOfService(ret[1], services[n])

C11_Witness ==
    /\ FailedAtMachines
    /\ FatalMachines = {0, 1}
    /\ IsErrorOfMachine(ret[1], machines[1])
    /\ ~IsErrorOfMachine(ret[1], machines[0])

====
